---- MODULE Spec2Model ----
(***************************************************************************)
(* Meltdown detection and global trading-control loop of AlphaLink.        *)
(*                                                                         *)
(* scripts/riskScanner.js (kept in src/src/admin/adminLogs.js, lines       *)
(* 185-398) runs runRiskScanner under a database advisory lock, once from  *)
(* main() and then from a cron callback.  The admin surface (admin.js,     *)
(* adminWebApp.js) pauses and resumes the same global trading state.       *)
(*                                                                         *)
(* One "scheduler" is one stream of runRiskScanner invocations: main()'s   *)
(* start-up cycle followed by cron ticks.  runRiskScanner keeps no         *)
(* module-level mutable state, so a tick overlapping another tick of the   *)
(* same process shares with it exactly what two processes share: the gate  *)
(* and the trading state.  Two schedulers therefore stand both for two     *)
(* processes and for two overlapping ticks of one process.                 *)
(*                                                                         *)
(* Every `await` of the source is a step boundary.                         *)
(***************************************************************************)
EXTENDS Integers, FiniteSets, Sequences, TLC

(***************************************************************************)
(* Bounds of the model.                                                    *)
(***************************************************************************)
NumSchedulers == 2
MaxFailCount == 6

Schedulers == 1..NumSchedulers

\* The admin acting through admin.js and the admin web app.
Admin == NumSchedulers + 1
Actors == Schedulers \cup {Admin}

(***************************************************************************)
(* RISK_SCANNER_CONFIG, thresholds in percent.                             *)
(***************************************************************************)
PriceDropThresholdPct == 10
AggregatorErrorRatePct == 15
ConsecutiveFailThreshold == 5

MARKET == "MARKET"
AGGREGATOR == "AGGREGATOR"
FAILURE_BURST == "FAILURE_BURST"
Sources == {MARKET, AGGREGATOR, FAILURE_BURST}

\* Mutant of the scanner's reason: the empty string.
AutoReason_Empty == ""

AutoReason == "riskScanner meltdown => Flash Crash / aggregator meltdown / circuit breaker"

\* The sources a stored reason names: the scanner's literal names all three
\* ('Flash Crash', 'aggregator meltdown', 'circuit breaker').
SourcesNamed(reason) == IF reason = AutoReason THEN Sources ELSE {}

DefaultAdminReason == "Manual Admin Pause"
AdminReasons == {DefaultAdminReason, "operator reason"}
Roles == {"superadmin", "riskmanager", "tradermanager", "none"}

(***************************************************************************)
(* Inputs: what the database, the price feed and the other collaborators   *)
(* answer.  A query either resolves or rejects.                            *)
(***************************************************************************)
OldPrices == {-50, 0, 100}
CurPrices == {0, 85, 90, 91, 100}

\* "missing": a row without old_price, read as parseFloat('0').
OldPriceResults ==
  {[kind |-> "raise", price |-> 0], [kind |-> "norows", price |-> 0],
   [kind |-> "missing", price |-> 0]}
    \cup {[kind |-> "row", price |-> p] : p \in OldPrices}

FeedResults ==
  {[kind |-> "null", price |-> 0]}
    \cup {[kind |-> "ok", price |-> p] : p \in CurPrices}

\* fail_count and total_count of the five-minute window: 1/20 = 5%, 1/7 < 15%,
\* 3/20 = 15%, 7/20 = 35%, and the empty window.
ExecutionCounts == {0, 1, 3, 7, 20}

MetricsQueryResults ==
  {[kind |-> k, failCount |-> 0, totalCount |-> 0] :
      k \in {"tpsfail", "norows", "errfail", "laterfail"}}
    \cup {[kind |-> "ok", failCount |-> f, totalCount |-> t] :
            f \in ExecutionCounts, t \in ExecutionCounts}

FailCountResults ==
  {[kind |-> "raise", n |-> 0], [kind |-> "missing", n |-> 0],
   [kind |-> "nan", n |-> 0]}
    \cup {[kind |-> "count", n |-> n] : n \in 0..MaxFailCount}

QueryOutcomes == {"ok", "raise"}

VARIABLES
  gate,       \* set of actors holding advisory lock 12345
  trading,    \* the global trading state record
  pc,         \* per scheduler: position in main / runRiskScanner / cron
  wrapper,    \* per scheduler: who called the running cycle, "main" or "cron"
  cyc,        \* per scheduler: locals and call history of the running cycle
  outcome,    \* per scheduler: how its last finished cycle ended
  adm,        \* the last admin request, its caller and its answer (AdminSpec)
  probe,      \* answers handed to the three source checks, and their verdicts
              \* (SourceSpec)
  desk,       \* admin_roles, admin_logs, notifications sent and the running
              \* calls of setAdminRole and forceMarketPause (ToolsSpec)
  mon,        \* the aggregator monitor: its position, the stats of the
              \* current run, what the run stored and sent (MonitorSpec)
  bill        \* the users table and the billing cycle of each process
              \* (BillingSpec)

vars ==
  <<gate, trading, pc, wrapper, cyc, outcome, adm, probe, desk, mon, bill>>


(***************************************************************************)
(* MutualExclusionGate: pg_try_advisory_lock(12345) / pg_advisory_unlock   *)
(* behind query() of database.js.  A try-lock is granted exactly when      *)
(* nobody holds the lock; unlock frees the caller's hold.                  *)
(***************************************************************************)
GateTryAcquire(g, s) == g = {}

GateAfterAcquire(g, s) == IF GateTryAcquire(g, s) THEN g \cup {s} ELSE g

GateAfterRelease(g, s) == g \ {s}

(***************************************************************************)
(* TradingStateStore: riskControl.pauseGlobalTrading(reason) and           *)
(* riskControl.resumeGlobalTrading().  An automatic pause does not         *)
(* overwrite an admin-set pause.                                           *)
(***************************************************************************)
InitialTrading == [enabled |-> TRUE, reason |-> "", changedBy |-> "NONE"]

pauseGlobalTrading(t, reason, actor) ==
  IF ~t.enabled /\ t.changedBy = "ADMIN" /\ actor = "SYSTEM"
    THEN t
    ELSE [enabled |-> FALSE, reason |-> reason, changedBy |-> actor]

resumeGlobalTrading(t, actor) ==
  [enabled |-> TRUE, reason |-> "", changedBy |-> actor]

\* Every call of the store in the sources passes the reason alone, or nothing:
\*   riskControl.pauseGlobalTrading(`riskScanner meltdown => ${reason}`)
\*   riskControl.pauseGlobalTrading(reason)
\*   riskControl.resumeGlobalTrading()
\* The actor parameter of the store is left unset by the scanner and by the
\* admin alike.
NoActor == "UNSPECIFIED"

(***************************************************************************)
(* Signal sources.  Each operator returns what the JavaScript function     *)
(* does with the given answers: raised (an exception leaves the function), *)
(* triggered (it returned true), error (a data fetch failed on the way).   *)
(***************************************************************************)
Verdict(raised, triggered, error) ==
  [raised |-> raised, triggered |-> triggered, error |-> error]

\* dropPct >= priceDropThreshold, with dropPct = (oldPrice - currentPrice) / oldPrice
DropReachesThreshold(oldPrice, currentPrice) ==
  (oldPrice - currentPrice) * 100 >= PriceDropThresholdPct * oldPrice

\* Mutant of checkMarketConditions: without its try/catch, a rejected query
\* leaves the function as an exception.
checkMarketConditions_NoCatch(oldRes, feed) ==
  IF oldRes.kind = "raise" THEN Verdict(TRUE, FALSE, TRUE)
  ELSE IF oldRes.kind = "norows" THEN Verdict(FALSE, FALSE, FALSE)
  ELSE IF oldRes.price <= 0 THEN Verdict(FALSE, FALSE, FALSE)
  ELSE IF feed.kind = "null" THEN Verdict(FALSE, FALSE, TRUE)
  ELSE IF feed.price = 0 THEN Verdict(FALSE, FALSE, FALSE)
  ELSE Verdict(FALSE, DropReachesThreshold(oldRes.price, feed.price), FALSE)

checkMarketConditions(oldRes, feed) ==
  IF oldRes.kind = "raise" THEN Verdict(FALSE, FALSE, TRUE)
  ELSE IF oldRes.kind = "norows" THEN Verdict(FALSE, FALSE, FALSE)
  ELSE IF oldRes.price <= 0 THEN Verdict(FALSE, FALSE, FALSE)
  ELSE IF feed.kind = "null" THEN Verdict(FALSE, FALSE, TRUE)
  ELSE IF feed.price = 0 THEN Verdict(FALSE, FALSE, FALSE)
  ELSE Verdict(FALSE, DropReachesThreshold(oldRes.price, feed.price), FALSE)

\* Mutant of collectAggregatorMetrics: the division made without the
\* totalCount > 0 test.
collectAggregatorMetrics_Unguarded(res) ==
  IF res.kind \in {"tpsfail", "norows", "errfail"}
    THEN [kind |-> "null", rateNum |-> 0, rateDen |-> 1, meltdownWarnings |-> FALSE]
  ELSE IF res.kind = "laterfail"
    THEN [kind |-> "raise", rateNum |-> 0, rateDen |-> 1, meltdownWarnings |-> FALSE]
  ELSE [kind |-> "stats", rateNum |-> res.failCount, rateDen |-> res.totalCount,
        meltdownWarnings |-> FALSE]

\* collectAggregatorMetrics: null when the TPS or error-rate query fails, an
\* exception when a later query fails, else the stats.  trade_error_rate is
\* kept as the fraction rateNum / rateDen.
collectAggregatorMetrics(res) ==
  IF res.kind \in {"tpsfail", "norows", "errfail"}
    THEN [kind |-> "null", rateNum |-> 0, rateDen |-> 1, meltdownWarnings |-> FALSE]
  ELSE IF res.kind = "laterfail"
    THEN [kind |-> "raise", rateNum |-> 0, rateDen |-> 1, meltdownWarnings |-> FALSE]
  ELSE IF res.totalCount > 0
    THEN [kind |-> "stats", rateNum |-> res.failCount, rateDen |-> res.totalCount,
          meltdownWarnings |-> FALSE]
  ELSE [kind |-> "stats", rateNum |-> 0, rateDen |-> 1, meltdownWarnings |-> FALSE]

\* Mutant of the test below: a rate equal to the threshold counts as well.
ErrorRateExceeds_AtOrAbove(stats) ==
  stats.rateNum * 100 >= AggregatorErrorRatePct * stats.rateDen

\* stats.trade_error_rate > aggregatorErrorRate
ErrorRateExceeds(stats) ==
  stats.rateNum * 100 > AggregatorErrorRatePct * stats.rateDen

checkAggregatorMetricsForMeltdown(stats) ==
  IF stats.kind = "raise" THEN Verdict(TRUE, FALSE, TRUE)
  ELSE IF stats.kind = "null" THEN Verdict(TRUE, FALSE, TRUE)
  ELSE IF ErrorRateExceeds(stats) THEN Verdict(FALSE, TRUE, FALSE)
  ELSE IF stats.meltdownWarnings THEN Verdict(FALSE, TRUE, FALSE)
  ELSE Verdict(FALSE, FALSE, FALSE)

\* Mutant of the test below: a count equal to the threshold does not trip.
FailCountReaches_Strict(failCount) == failCount > ConsecutiveFailThreshold

\* failCount >= RISK_SCANNER_CONFIG.consecutiveFailThreshold
FailCountReaches(failCount) == failCount >= ConsecutiveFailThreshold

circuitBreakerChecks(failRes) ==
  IF failRes.kind = "raise" THEN Verdict(TRUE, FALSE, TRUE)
  ELSE IF failRes.kind = "nan" THEN Verdict(FALSE, FALSE, FALSE)
  ELSE IF failRes.kind = "missing" THEN Verdict(FALSE, FailCountReaches(0), FALSE)
  ELSE Verdict(FALSE, FailCountReaches(failRes.n), FALSE)


(***************************************************************************)
(* State of one cycle: the local meltdownTriggered, and the record of what *)
(* the cycle has called so far.                                            *)
(***************************************************************************)
FreshCycle ==
  [acquire |-> "notcalled",        \* notcalled, granted
   meltdownTriggered |-> FALSE,
   evaluated |-> {},               \* sources whose check was called
   triggered |-> {},               \* sources that returned true
   errored |-> {},                 \* sources whose data fetch failed
   srcRaised |-> "none",           \* the source whose exception left the try block
   pause |-> "notcalled",          \* notcalled, ok, raise
   alert |-> "notcalled"]          \* notcalled, ok, raise

\* The admin desk of admin.js: users, the roles a caller may name, the two
\* requests whose calls may be in flight together, and the rows admin_logs
\* may take.
Users == {"u1", "u2"}
NewRoles == {"superadmin", "riskmanager", "root"}
Callers == {"request1", "request2"}
MaxLogRows == 3

\* A slot with no call in flight; `result` is how the last call ended.
IdleCall(result) ==
  [fn |-> "none", at |-> "idle", adminId |-> "u1", targetUserId |-> "u1",
   newRole |-> "root", logged |-> "notcalled", paused |-> "notcalled",
   result |-> result]

\* No role assigned, no log row, no notification sent, no call in flight.
NoDesk ==
  [admin_roles |-> [u \in Users |-> "none"], admin_logs |-> 0,
   notified |-> {}, call |-> [c \in Callers |-> IdleCall("none")]]

\* aggregatorMonitor.js: the defaults of ERROR_RATE_THRESHOLD (0.1, as a
\* percentage) and QUEUE_LENGTH_THRESHOLD, the three alerts of
\* handleAggregatorStats, and the rows aggregator_stats may take.
MonitorErrorRatePct == 10
QueueLengthThreshold == 20
Alerts == {"errorRate", "queueBacklog", "rpcUnhealthy"}
MaxStatsRows == 3

\* The monitor before main() has run: no stats collected, nothing stored and
\* nothing sent in the current run.
NoStats ==
  [kind |-> "pending", rateNum |-> 0, rateDen |-> 1, queueLength |-> 0,
   rpcHealthy |-> TRUE]

NoMonitor ==
  [pc |-> "boot", wrapper |-> "main", stats |-> NoStats,
   inserted |-> "notcalled", sent |-> {}, rows |-> 0]

\* subscriptionBilling.js: the users of the users table in the order the
\* SELECT returns them, the processes that run the script, and the number of
\* fee transfers followed per user.
BillUsers == <<"alice", "bob">>
BillUserIds == {BillUsers[i] : i \in 1..Len(BillUsers)}
Runners == {"process1", "process2"}
MaxCharges == 2

\* A process before main() has run.
NoRun == [pc |-> "boot", wrapper |-> "main", queue |-> <<>>, paid |-> FALSE]

\* A user row: premium_expires_at ("due" selects the user for billing,
\* "extended" and NULL do not), user_type, and the fee transfers that left the
\* user's vault.
UserRow(expiry, userType) ==
  [expiry |-> expiry, user_type |-> userType, charged |-> 0]

NoBilling ==
  [users |-> [u \in BillUserIds |-> UserRow("extended", "premium")],
   run |-> [r \in Runners |-> NoRun]]

\* No admin request has been recorded.
NoRequest ==
  [pausedBy |-> "nobody", route |-> "none", role |-> "none", status |-> "none",
   lifted |-> "nobody"]

\* The statistics before collectAggregatorMetrics has been called.
NotCollected ==
  [kind |-> "pending", rateNum |-> 0, rateDen |-> 1, meltdownWarnings |-> FALSE]

\* The answers the three checks are handed, with the verdicts they gave:
\* res is the answer to the queries of collectAggregatorMetrics, warn the
\* meltdownWarnings flag of the statistics, stats the statistics collected.
Probe(oldRes, feed, res, warn, failRes) ==
  [oldRes |-> oldRes, feed |-> feed, res |-> res, warn |-> warn,
   stats |-> NotCollected, failRes |-> failRes,
   evaluated |-> {},
   verdict |-> [src \in Sources |-> Verdict(FALSE, FALSE, FALSE)]]

\* Nothing is probed in Spec and AdminSpec.
NoProbe ==
  Probe([kind |-> "norows", price |-> 0], [kind |-> "null", price |-> 0],
        [kind |-> "norows", failCount |-> 0, totalCount |-> 0], FALSE,
        [kind |-> "missing", n |-> 0])

\* Start-up: nobody holds the lock, trading is enabled, no cycle has run.
InitScanner ==
  /\ gate = {}
  /\ trading = InitialTrading
  /\ pc = [s \in Schedulers |-> "boot"]
  /\ wrapper = [s \in Schedulers |-> "main"]
  /\ cyc = [s \in Schedulers |-> FreshCycle]
  /\ outcome = [s \in Schedulers |-> "none"]
  /\ adm = NoRequest

Init ==
  /\ InitScanner
  /\ probe = NoProbe
  /\ desk = NoDesk
  /\ mon = NoMonitor
  /\ bill = NoBilling

\* An exception is on its way out of the try block when `finally` runs.
ExceptionPending(c) ==
  c.srcRaised # "none" \/ c.pause = "raise" \/ c.alert = "raise"

(***************************************************************************)
(* main() and scheduleRiskScanner(): who receives the end of a cycle.      *)
(*   main:  await runRiskScanner(); scheduleRiskScanner();                 *)
(*          a rejected runRiskScanner rejects main(), and the schedule is  *)
(*          never installed.                                               *)
(*   cron:  try { await runRiskScanner() } catch (err) { console.error }   *)
(* "sleep" is the installed schedule waiting for its next tick.            *)
(***************************************************************************)
AfterCycle(caller, result) ==
  IF caller = "main" /\ result = "failed" THEN "crashed" ELSE "sleep"

\* The cycle of scheduler s ends with `result`: done, skipped or failed.
EndCycle(s, result) ==
  /\ pc' = [pc EXCEPT ![s] = AfterCycle(wrapper[s], result)]
  /\ outcome' = [outcome EXCEPT ![s] = result]
  /\ cyc' = [cyc EXCEPT ![s] = FreshCycle]

MainStart(s) ==
  /\ pc[s] = "boot"
  /\ pc' = [pc EXCEPT ![s] = "acquire"]
  /\ wrapper' = [wrapper EXCEPT ![s] = "main"]
  /\ UNCHANGED <<gate, trading, cyc, outcome, adm, probe, desk, mon, bill>>

CronTick(s) ==
  /\ pc[s] = "sleep"
  /\ pc' = [pc EXCEPT ![s] = "acquire"]
  /\ wrapper' = [wrapper EXCEPT ![s] = "cron"]
  /\ UNCHANGED <<gate, trading, cyc, outcome, adm, probe, desk, mon, bill>>

(***************************************************************************)
(* runRiskScanner()                                                        *)
(***************************************************************************)
\* Mutants of the got_lock check: the answer ignored, and the test inverted.
ProceedsPastGate_Ignored(gotLock) == TRUE

ProceedsPastGate_Inverted(gotLock) == ~gotLock

\* if (!lockRes.rows[0].got_lock) return;
ProceedsPastGate(gotLock) == gotLock

AcquireStep(s) ==
  /\ pc[s] = "acquire"
  /\ \E q \in QueryOutcomes :
       IF q = "raise"
         THEN /\ EndCycle(s, "failed")
              /\ UNCHANGED gate
         ELSE LET gotLock == GateTryAcquire(gate, s) IN
              /\ gate' = GateAfterAcquire(gate, s)
              /\ IF ProceedsPastGate(gotLock)
                   THEN /\ pc' = [pc EXCEPT ![s] = "market"]
                        /\ cyc' = [cyc EXCEPT ![s].acquire =
                                     IF gotLock THEN "granted" ELSE "busy"]
                        /\ UNCHANGED outcome
                   ELSE EndCycle(s, "skipped")
  /\ UNCHANGED <<trading, wrapper, adm, probe, desk, mon, bill>>

\* The bookkeeping common to the three checks: the verdict v of source src.
AfterCheck(c, src, v) ==
  [c EXCEPT !.evaluated = @ \cup {src},
            !.triggered = IF v.triggered THEN @ \cup {src} ELSE @,
            !.errored = IF v.error THEN @ \cup {src} ELSE @,
            !.srcRaised = IF v.raised THEN src ELSE @,
            !.meltdownTriggered = @ \/ v.triggered]

\* Mutant of the meltdown test: the action taken whatever the verdicts.
ShouldPause_Always(meltdownTriggered) == TRUE

\* if (meltdownTriggered) { await meltdownDetectedAction(...) }
ShouldPause(meltdownTriggered) == meltdownTriggered

\* Mutant of the sequence below: the meltdown action taken as soon as one
\* source has triggered.
AfterSource_PauseOnTrigger(src, v, meltdownTriggered) ==
  IF v.raised THEN "release"
  ELSE IF v.triggered THEN "pause"
  ELSE IF src = MARKET THEN "aggregator"
  ELSE IF src = AGGREGATOR THEN "circuit"
  ELSE "release"

\* Mutant of the sequence below: the failure-burst check made before the
\* aggregator check.
AfterSource_CircuitFirst(src, v, meltdownTriggered) ==
  IF v.raised THEN "release"
  ELSE IF src = MARKET THEN "circuit"
  ELSE IF src = FAILURE_BURST THEN "aggregator"
  ELSE IF ShouldPause(meltdownTriggered) THEN "pause"
  ELSE "release"

\* Mutant of the sequence below: a check that caught an error is made again.
AfterSource_RetryOnError(src, v, meltdownTriggered) ==
  IF v.raised THEN "release"
  ELSE IF v.error
    THEN (IF src = MARKET THEN "market"
          ELSE IF src = AGGREGATOR THEN "aggregator" ELSE "circuit")
  ELSE IF src = MARKET THEN "aggregator"
  ELSE IF src = AGGREGATOR THEN "circuit"
  ELSE IF ShouldPause(meltdownTriggered) THEN "pause"
  ELSE "release"

\* The statement reached when the check of source src has given verdict v:
\* an exception leaves the try block for `finally`; otherwise market is
\* followed by aggregator, aggregator by failure-burst, and failure-burst by
\* the test of meltdownTriggered.
AfterSource(src, v, meltdownTriggered) ==
  IF v.raised THEN "release"
  ELSE IF src = MARKET THEN "aggregator"
  ELSE IF src = AGGREGATOR THEN "circuit"
  ELSE IF ShouldPause(meltdownTriggered) THEN "pause"
  ELSE "release"

MarketStep(s) ==
  /\ pc[s] = "market"
  /\ \E oldRes \in OldPriceResults, feed \in FeedResults :
       LET v == checkMarketConditions(oldRes, feed)
           c == AfterCheck(cyc[s], MARKET, v) IN
       /\ cyc' = [cyc EXCEPT ![s] = c]
       /\ pc' = [pc EXCEPT ![s] = AfterSource(MARKET, v, c.meltdownTriggered)]
  /\ UNCHANGED <<gate, trading, wrapper, outcome, adm, probe, desk, mon, bill>>

AggregatorStep(s) ==
  /\ pc[s] = "aggregator"
  /\ \E res \in {r \in MetricsQueryResults : r.failCount <= r.totalCount} :
       LET v == checkAggregatorMetricsForMeltdown(collectAggregatorMetrics(res))
           c == AfterCheck(cyc[s], AGGREGATOR, v) IN
       /\ cyc' = [cyc EXCEPT ![s] = c]
       /\ pc' = [pc EXCEPT ![s] = AfterSource(AGGREGATOR, v, c.meltdownTriggered)]
  /\ UNCHANGED <<gate, trading, wrapper, outcome, adm, probe, desk, mon, bill>>

\* An awaited source never settles: the fetch of the price feed is made
\* without a timeout, and so are the queries behind the three checks.  No
\* statement of the cycle runs after it; nothing in the scanner cancels it.
SourceBlocks(s) ==
  /\ pc[s] \in {"market", "aggregator", "circuit"}
  /\ pc' = [pc EXCEPT ![s] = "hung"]
  /\ UNCHANGED <<gate, trading, wrapper, cyc, outcome, adm, probe, desk, mon, bill>>

CircuitStep(s) ==
  /\ pc[s] = "circuit"
  /\ \E failRes \in FailCountResults :
       LET v == circuitBreakerChecks(failRes)
           c == AfterCheck(cyc[s], FAILURE_BURST, v) IN
       /\ cyc' = [cyc EXCEPT ![s] = c]
       /\ pc' = [pc EXCEPT ![s] = AfterSource(FAILURE_BURST, v, c.meltdownTriggered)]
  /\ UNCHANGED <<gate, trading, wrapper, outcome, adm, probe, desk, mon, bill>>

(***************************************************************************)
(* meltdownDetectedAction(reason): pause, then the admin alert.            *)
(***************************************************************************)
\* Mutant of the sequence below: the alert sent whether or not the pause
\* resolved.
AlertFollows_Always(pauseOutcome) == TRUE

\* await riskControl.pauseGlobalTrading(...); notifications.sendAdminGlobalAlert(...)
\* The alert is the statement after the awaited pause: it is reached only when
\* the pause resolved.
AlertFollows(pauseOutcome) == pauseOutcome = "ok"

\* Mutant of the scanner's call of the store: the resume called instead.
ScannerTransition_Resumes(t) == resumeGlobalTrading(t, NoActor)

\* await riskControl.pauseGlobalTrading(`riskScanner meltdown => ${reason}`):
\* the one call of the store the scanner makes.
ScannerTransition(t) == pauseGlobalTrading(t, AutoReason, NoActor)

PauseStep(s) ==
  /\ pc[s] = "pause"
  /\ \E q \in QueryOutcomes :
       /\ trading' = IF q = "ok" THEN ScannerTransition(trading) ELSE trading
       /\ cyc' = [cyc EXCEPT ![s].pause = q]
       /\ pc' = [pc EXCEPT ![s] = IF AlertFollows(q) THEN "alert" ELSE "release"]
  /\ UNCHANGED <<gate, wrapper, outcome, adm, probe, desk, mon, bill>>

AlertStep(s) ==
  /\ pc[s] = "alert"
  /\ \E q \in QueryOutcomes :
       cyc' = [cyc EXCEPT ![s].alert = q]
  /\ pc' = [pc EXCEPT ![s] = "release"]
  /\ UNCHANGED <<gate, trading, wrapper, outcome, adm, probe, desk, mon, bill>>

\* finally { await query(`SELECT pg_advisory_unlock(12345)`) }
\* A rejected unlock query may or may not have reached the database.
ReleaseStep(s) ==
  /\ pc[s] = "release"
  /\ \/ /\ gate' = GateAfterRelease(gate, s)
        /\ EndCycle(s, IF ExceptionPending(cyc[s]) THEN "failed" ELSE "done")
     \/ /\ gate' \in {gate, GateAfterRelease(gate, s)}
        /\ EndCycle(s, "failed")
  /\ UNCHANGED <<trading, wrapper, adm, probe, desk, mon, bill>>

(***************************************************************************)
(* Admin surface: admin.js forceMarketPause, and the control-centre routes *)
(* of adminWebApp.js.  None of them touches the advisory lock.  Each       *)
(* handler is given as what it does to the trading state and what its      *)
(* caller gets back: an HTTP status, "returned", or "rejected" when the     *)
(* exception of the store leaves the handler.                              *)
(***************************************************************************)
Response(t, status) == [trading |-> t, status |-> status]

\* async function forceMarketPause(adminId, reason = 'Manual Admin Pause')
forceMarketPauseCall(t, reason, q) ==
  IF q = "raise"
    THEN Response(t, "rejected")
    ELSE Response(pauseGlobalTrading(t, reason, NoActor), "returned")

\* Mutant of the route below: the role test accepts every registered admin.
pause_ai_AnyAdmin(t, adminRole, reason, q) ==
  IF adminRole = "none" THEN Response(t, "403")
  ELSE IF q = "raise" THEN Response(t, "rejected")
  ELSE Response(pauseGlobalTrading(t, reason, NoActor), "200")

\* router.post('/control_center/pause_ai'): no try/catch around the store call
pause_ai(t, adminRole, reason, q) ==
  IF adminRole # "superadmin" THEN Response(t, "403")
  ELSE IF q = "raise" THEN Response(t, "rejected")
  ELSE Response(pauseGlobalTrading(t, reason, NoActor), "200")

\* router.post('/control_center/resume_ai'): the caller's role is not read
resume_ai(t, q) ==
  IF q = "raise"
    THEN Response(t, "500")
    ELSE Response(resumeGlobalTrading(t, NoActor), "200")

forceMarketPause ==
  /\ trading' \in {forceMarketPauseCall(trading, reason, q).trading :
                     reason \in AdminReasons, q \in QueryOutcomes}
  /\ UNCHANGED <<gate, pc, wrapper, cyc, outcome, adm, probe, desk, mon, bill>>

RoutePauseAi ==
  /\ trading' \in {pause_ai(trading, adminRole, reason, q).trading :
                     adminRole \in Roles, reason \in AdminReasons,
                     q \in QueryOutcomes}
  /\ UNCHANGED <<gate, pc, wrapper, cyc, outcome, adm, probe, desk, mon, bill>>

RouteResumeAi ==
  /\ trading' \in {resume_ai(trading, q).trading : q \in QueryOutcomes}
  /\ UNCHANGED <<gate, pc, wrapper, cyc, outcome, adm, probe, desk, mon, bill>>

SchedulerStep(s) ==
  \/ MainStart(s)
  \/ CronTick(s)
  \/ AcquireStep(s)
  \/ MarketStep(s)
  \/ AggregatorStep(s)
  \/ CircuitStep(s)
  \/ SourceBlocks(s)
  \/ PauseStep(s)
  \/ AlertStep(s)
  \/ ReleaseStep(s)

Next ==
  \/ \E s \in Schedulers : SchedulerStep(s)
  \/ forceMarketPause
  \/ RoutePauseAi
  \/ RouteResumeAi

Spec == Init /\ [][Next]_vars


(***************************************************************************)
(* AdminSpec: the admin surface alone, one request after the other, each   *)
(* recorded in adm with the role of its caller (the role getAdminRole      *)
(* gives for req.adminId / adminId), the answer the caller got, the role   *)
(* of the admin whose pause stands (pausedBy), and the pause a resume      *)
(* request met (lifted).                                                   *)
(***************************************************************************)
Recorded(route, adminRole, status, pausedBy, lifted) ==
  [pausedBy |-> pausedBy, route |-> route, role |-> adminRole,
   status |-> status, lifted |-> lifted]

AdminForceMarketPause ==
  /\ \E adminRole \in Roles, reason \in AdminReasons, q \in QueryOutcomes :
       LET r == forceMarketPauseCall(trading, reason, q) IN
       /\ trading' = r.trading
       /\ adm' = Recorded("forceMarketPause", adminRole, r.status,
                          IF r.status = "returned" THEN adminRole ELSE adm.pausedBy,
                          "nobody")
  /\ UNCHANGED <<gate, pc, wrapper, cyc, outcome, probe, desk, mon, bill>>

AdminPauseAi ==
  /\ \E adminRole \in Roles, reason \in AdminReasons, q \in QueryOutcomes :
       LET r == pause_ai(trading, adminRole, reason, q) IN
       /\ trading' = r.trading
       /\ adm' = Recorded("pause_ai", adminRole, r.status,
                          IF r.status = "200" THEN adminRole ELSE adm.pausedBy,
                          "nobody")
  /\ UNCHANGED <<gate, pc, wrapper, cyc, outcome, probe, desk, mon, bill>>

AdminResumeAi ==
  /\ \E adminRole \in Roles, q \in QueryOutcomes :
       LET r == resume_ai(trading, q) IN
       /\ trading' = r.trading
       /\ adm' = Recorded("resume_ai", adminRole, r.status,
                          IF r.status = "200" THEN "nobody" ELSE adm.pausedBy,
                          adm.pausedBy)
  /\ UNCHANGED <<gate, pc, wrapper, cyc, outcome, probe, desk, mon, bill>>

AdminNext == AdminForceMarketPause \/ AdminPauseAi \/ AdminResumeAi

AdminSpec == Init /\ [][AdminNext]_vars


(***************************************************************************)
(* SourceSpec: the three source checks as functions of the answers they    *)
(* are handed.  The start state draws one answer of each query, of the     *)
(* price feed and of the metrics collection; each action applies one check *)
(* to its answers and records the verdict.                                 *)
(***************************************************************************)
SourceInit ==
  /\ InitScanner
  /\ probe \in {Probe(oldRes, feed, res, warn, failRes) :
                  oldRes \in OldPriceResults, feed \in FeedResults,
                  res \in {r \in MetricsQueryResults : r.failCount <= r.totalCount},
                  warn \in BOOLEAN, failRes \in FailCountResults}
  /\ desk = NoDesk
  /\ mon = NoMonitor
  /\ bill = NoBilling

Evaluated(src, v) ==
  /\ src \notin probe.evaluated
  /\ probe' = [probe EXCEPT !.evaluated = @ \cup {src}, !.verdict[src] = v]
  /\ UNCHANGED <<gate, trading, pc, wrapper, cyc, outcome, adm, desk, mon, bill>>

ProbeMarket == Evaluated(MARKET, checkMarketConditions(probe.oldRes, probe.feed))

\* const stats = await collectAggregatorMetrics(); the flag is whatever the
\* collecting module sets.
ProbeCollect ==
  /\ probe.stats = NotCollected
  /\ probe' = [probe EXCEPT !.stats =
                  [collectAggregatorMetrics(probe.res)
                     EXCEPT !.meltdownWarnings = probe.warn]]
  /\ UNCHANGED <<gate, trading, pc, wrapper, cyc, outcome, adm, desk, mon, bill>>

ProbeAggregator ==
  /\ probe.stats # NotCollected
  /\ Evaluated(AGGREGATOR, checkAggregatorMetricsForMeltdown(probe.stats))

ProbeCircuit == Evaluated(FAILURE_BURST, circuitBreakerChecks(probe.failRes))

SourceNext == ProbeMarket \/ ProbeCollect \/ ProbeAggregator \/ ProbeCircuit

SourceSpec == SourceInit /\ [][SourceNext]_vars


(***************************************************************************)
(* ToolsSpec: setAdminRole and forceMarketPause of admin.js, as the        *)
(* sequences of awaited statements they are.  Calls made by different      *)
(* requests run interleaved at their awaits; each slot of desk.call holds  *)
(* one call: the function, the statement it is about to run, its           *)
(* arguments, and what its calls gave so far.  When a call ends only its   *)
(* result stays in the slot.                                               *)
(***************************************************************************)
\* async function getAdminRole(userId): 'none' when admin_roles has no row
getAdminRole(admin_roles, userId) == admin_roles[userId]

\* const allowedRoles = ['superadmin', 'riskmanager', 'tradermanager'];
allowedRoles == {"superadmin", "riskmanager", "tradermanager"}

\* if (adminRole !== 'superadmin') throw ...
IsSuperadmin(adminRole) == adminRole = "superadmin"

InFlight == {c \in Callers : desk.call[c].at # "idle"}

\* The call in slot c ends with `result`.
Finish(c, result) == [desk.call EXCEPT ![c] = IdleCall(result)]

\* A request calls setAdminRole(adminId, targetUserId, newRole).
CallSetAdminRole(c) ==
  /\ desk.call[c].at = "idle"
  /\ desk.admin_logs + Cardinality(InFlight) < MaxLogRows
  /\ \E adminId \in Users, targetUserId \in Users, newRole \in NewRoles :
       desk' = [desk EXCEPT !.call[c] =
                  [IdleCall("none") EXCEPT !.fn = "setAdminRole",
                                           !.at = "getAdminRole",
                                           !.adminId = adminId,
                                           !.targetUserId = targetUserId,
                                           !.newRole = newRole]]
  /\ UNCHANGED <<gate, trading, pc, wrapper, cyc, outcome, adm, probe, mon, bill>>

\* const adminRole = await getAdminRole(adminId); the two tests that throw.
SetAdminRoleCheck(c) ==
  LET k == desk.call[c] IN
  /\ k.fn = "setAdminRole" /\ k.at = "getAdminRole"
  /\ \E q \in QueryOutcomes :
       desk' = [desk EXCEPT !.call =
         IF q = "raise" THEN Finish(c, "rejected")
         ELSE IF ~IsSuperadmin(getAdminRole(desk.admin_roles, k.adminId))
           THEN Finish(c, "OnlySuperadmins")
         ELSE IF k.newRole \notin allowedRoles THEN Finish(c, "InvalidRole")
         ELSE [desk.call EXCEPT ![c].at = "logAdminAction"]]
  /\ UNCHANGED <<gate, trading, pc, wrapper, cyc, outcome, adm, probe, mon, bill>>

\* Mutant of the operator below: a failed INSERT rejects the caller.
AfterLog_Rethrows(fn, q) ==
  IF q = "raise" THEN "idle"
  ELSE IF fn = "setAdminRole" THEN "insert" ELSE "pause"

\* The statement after `await logAdminAction(...)`: logAdminAction catches
\* the error of its INSERT, so the caller goes on whatever the outcome q.
AfterLog(fn, q) == IF fn = "setAdminRole" THEN "insert" ELSE "pause"

\* await logAdminAction(adminId, action, details), of either function.
LogAdminActionStep(c) ==
  LET k == desk.call[c] IN
  /\ k.at = "logAdminAction"
  /\ \E q \in QueryOutcomes :
       LET nxt == AfterLog(k.fn, q) IN
       desk' = [desk EXCEPT
                  !.admin_logs = IF q = "ok" THEN @ + 1 ELSE @,
                  !.call = IF nxt = "idle" THEN Finish(c, "rejected")
                           ELSE [desk.call EXCEPT
                                   ![c].at = nxt,
                                   ![c].logged = IF q = "ok" THEN "ok" ELSE "failed"]]
  /\ UNCHANGED <<gate, trading, pc, wrapper, cyc, outcome, adm, probe, mon, bill>>

\* await query(`INSERT INTO admin_roles ... ON CONFLICT (user_id) DO UPDATE`)
SetAdminRoleInsert(c) ==
  LET k == desk.call[c] IN
  /\ k.fn = "setAdminRole" /\ k.at = "insert"
  /\ \E q \in QueryOutcomes :
       desk' = [desk EXCEPT
                  !.admin_roles = IF q = "ok"
                                    THEN [@ EXCEPT ![k.targetUserId] = k.newRole]
                                    ELSE @,
                  !.call = Finish(c, IF q = "ok" THEN "returned" ELSE "rejected")]
  /\ UNCHANGED <<gate, trading, pc, wrapper, cyc, outcome, adm, probe, mon, bill>>

\* A request calls forceMarketPause(adminId, reason): its first statement is
\* the logAdminAction call; the caller's role is not read.
CallForceMarketPause(c) ==
  /\ desk.call[c].at = "idle"
  /\ desk.admin_logs + Cardinality(InFlight) < MaxLogRows
  /\ desk' = [desk EXCEPT !.call[c] =
                [IdleCall("none") EXCEPT !.fn = "forceMarketPause",
                                         !.at = "logAdminAction"]]
  /\ UNCHANGED <<gate, trading, pc, wrapper, cyc, outcome, adm, probe, mon, bill>>

\* Mutant of the operator below: the superadmins are told whatever the pause
\* gave.
AfterForcedPause_NotifiesAnyway(q) == "notify"

\* The statement after `await riskControl.pauseGlobalTrading(reason)`: a
\* rejected pause rejects forceMarketPause.
AfterForcedPause(q) == IF q = "ok" THEN "notify" ELSE "idle"

\* await riskControl.pauseGlobalTrading(reason);
ForcePauseStep(c) ==
  LET k == desk.call[c] IN
  /\ k.fn = "forceMarketPause" /\ k.at = "pause"
  /\ \E q \in QueryOutcomes, reason \in AdminReasons :
       LET nxt == AfterForcedPause(q) IN
       /\ trading' = IF q = "ok" THEN pauseGlobalTrading(trading, reason, NoActor)
                                 ELSE trading
       /\ desk' = [desk EXCEPT !.call =
                     IF nxt = "idle" THEN Finish(c, "rejected")
                     ELSE [desk.call EXCEPT
                             ![c].at = nxt,
                             ![c].paused = IF q = "ok" THEN "ok" ELSE "raise"]]
  /\ UNCHANGED <<gate, pc, wrapper, cyc, outcome, adm, probe, mon, bill>>

\* const superadmins = await query(`SELECT user_id FROM admin_roles WHERE
\* role='superadmin'`); for (...) notifications.sendAdminNotification(...)
ForceNotifyStep(c) ==
  LET k == desk.call[c] IN
  /\ k.fn = "forceMarketPause" /\ k.at = "notify"
  /\ \E q \in QueryOutcomes :
       desk' = [desk EXCEPT
                  !.notified = IF q = "ok"
                                 THEN @ \cup {u \in Users : desk.admin_roles[u] = "superadmin"}
                                 ELSE @,
                  !.call = Finish(c, IF q = "ok" THEN "returned" ELSE "rejected")]
  /\ UNCHANGED <<gate, trading, pc, wrapper, cyc, outcome, adm, probe, mon, bill>>

\* admin_roles holds any assignment of roles when the first call arrives.
ToolsInit ==
  /\ InitScanner
  /\ probe = NoProbe
  /\ desk \in {[NoDesk EXCEPT !.admin_roles = r] : r \in [Users -> Roles]}
  /\ mon = NoMonitor
  /\ bill = NoBilling

ToolsNext ==
  \E c \in Callers :
    \/ CallSetAdminRole(c)
    \/ SetAdminRoleCheck(c)
    \/ LogAdminActionStep(c)
    \/ SetAdminRoleInsert(c)
    \/ CallForceMarketPause(c)
    \/ ForcePauseStep(c)
    \/ ForceNotifyStep(c)

ToolsSpec == ToolsInit /\ [][ToolsNext]_vars


(***************************************************************************)
(* MonitorSpec: scripts/aggregatorMonitor.js.  main() awaits one           *)
(* runAggregatorMonitor() and then installs the five-minute schedule; each *)
(* run collects the metrics and hands them to handleAggregatorStats.       *)
(* mon.stats, mon.inserted and mon.sent belong to the current run and stay *)
(* until the next run starts.                                              *)
(***************************************************************************)
\* The object collectAggregatorMetrics returns, as handleAggregatorStats
\* reads it: const queueLen = 0; rpcHealthy from the getLatestBlockhash try.
MonitorStats(st, rpcHealthy) ==
  [kind |-> st.kind, rateNum |-> st.rateNum, rateDen |-> st.rateDen,
   queueLength |-> 0, rpcHealthy |-> rpcHealthy]

\* stats.trade_error_rate > ERROR_RATE_THRESHOLD
HighErrorRate(stats) == stats.rateNum * 100 > MonitorErrorRatePct * stats.rateDen

\* stats.queueLength > QUEUE_LENGTH_THRESHOLD
QueueBacklog(stats) == stats.queueLength > QueueLengthThreshold

\* handleAggregatorStats(stats): q is the outcome of the INSERT, a[x] the
\* outcome of the sendAdminGlobalAlert call of alert x.  Reading a field of a
\* null stats throws before the query is issued; a rejected INSERT or a
\* throwing alert call leaves the function at that statement.
handleAggregatorStats(stats, q, a) ==
  IF stats.kind = "null"
    THEN [inserted |-> "notcalled", sent |-> {}, raised |-> TRUE]
  ELSE IF q = "raise"
    THEN [inserted |-> "raise", sent |-> {}, raised |-> TRUE]
  ELSE
    LET errThrows == HighErrorRate(stats) /\ a["errorRate"] = "raise"
        queueThrows == ~errThrows /\ QueueBacklog(stats)
                         /\ a["queueBacklog"] = "raise"
        rpcThrows == ~errThrows /\ ~queueThrows /\ ~stats.rpcHealthy
                       /\ a["rpcUnhealthy"] = "raise"
    IN [inserted |-> "ok",
        sent |-> {x \in Alerts :
                    \/ x = "errorRate" /\ HighErrorRate(stats) /\ ~errThrows
                    \/ x = "queueBacklog" /\ QueueBacklog(stats)
                         /\ ~errThrows /\ ~queueThrows
                    \/ x = "rpcUnhealthy" /\ ~stats.rpcHealthy
                         /\ ~errThrows /\ ~queueThrows /\ ~rpcThrows},
        raised |-> errThrows \/ queueThrows \/ rpcThrows]

\* Who receives the end of a run: main() has no try/catch around its await,
\* the cron callback has one.
AfterMonitorRun(caller, raised) ==
  IF caller = "main" /\ raised THEN "crashed" ELSE "sleep"

\* main(): await runAggregatorMonitor();
MonitorMain ==
  /\ mon.pc = "boot"
  /\ mon' = [mon EXCEPT !.pc = "collect", !.wrapper = "main"]
  /\ UNCHANGED <<gate, trading, pc, wrapper, cyc, outcome, adm, probe, desk, bill>>

\* cron.schedule('*/5 * * * *', async () => { try { await
\* runAggregatorMonitor() } catch ... })
MonitorTick ==
  /\ mon.pc = "sleep"
  /\ mon.rows < MaxStatsRows
  /\ mon' = [mon EXCEPT !.pc = "collect", !.wrapper = "cron",
                        !.stats = NoStats, !.inserted = "notcalled",
                        !.sent = {}]
  /\ UNCHANGED <<gate, trading, pc, wrapper, cyc, outcome, adm, probe, desk, bill>>

\* const stats = await collectAggregatorMetrics();
MonitorCollect ==
  /\ mon.pc = "collect"
  /\ \E res \in {r \in MetricsQueryResults : r.failCount <= r.totalCount},
        rpcHealthy \in BOOLEAN :
       LET st == collectAggregatorMetrics(res) IN
       mon' = IF st.kind = "raise"
                THEN [mon EXCEPT !.pc = AfterMonitorRun(mon.wrapper, TRUE)]
                ELSE [mon EXCEPT !.pc = "handle",
                                 !.stats = MonitorStats(st, rpcHealthy)]
  /\ UNCHANGED <<gate, trading, pc, wrapper, cyc, outcome, adm, probe, desk, bill>>

\* await handleAggregatorStats(stats);
MonitorHandle ==
  /\ mon.pc = "handle"
  /\ \E q \in QueryOutcomes, a \in [Alerts -> QueryOutcomes] :
       LET r == handleAggregatorStats(mon.stats, q, a) IN
       mon' = [mon EXCEPT !.pc = AfterMonitorRun(mon.wrapper, r.raised),
                          !.inserted = r.inserted,
                          !.sent = r.sent,
                          !.rows = IF r.inserted = "ok" THEN @ + 1 ELSE @]
  /\ UNCHANGED <<gate, trading, pc, wrapper, cyc, outcome, adm, probe, desk, bill>>

MonitorInit ==
  /\ InitScanner
  /\ probe = NoProbe
  /\ desk = NoDesk
  /\ mon = NoMonitor
  /\ bill = NoBilling

MonitorNext == MonitorMain \/ MonitorTick \/ MonitorCollect \/ MonitorHandle

MonitorSpec == MonitorInit /\ [][MonitorNext]_vars


(***************************************************************************)
(* BillingSpec: scripts/subscriptionBilling.js.  Each process runs main(): *)
(* one awaited runBillingCycle(), then the daily schedule.  A cycle reads  *)
(* the users to bill once and then handles them one after the other;       *)
(* bill.run[r].queue holds the users of the cycle not yet finished, its    *)
(* head being the user in hand, and paid tells that the transfer of the    *)
(* user in hand was sent and confirmed in this cycle.  Nothing serialises  *)
(* the cycles of two processes.                                            *)
(***************************************************************************)
\* getAllUsersExpiringSoon(): the rows whose premium_expires_at is before
\* NOW() + 24 hours; a NULL premium_expires_at satisfies neither comparison.
RECURSIVE SelectDue(_, _)
SelectDue(users, i) ==
  IF i > Len(BillUsers) THEN <<>>
  ELSE IF users[BillUsers[i]].expiry = "due"
    THEN <<BillUsers[i]>> \o SelectDue(users, i + 1)
  ELSE SelectDue(users, i + 1)

getAllUsersExpiringSoon(users) == SelectDue(users, 1)

\* Who receives the end of a cycle: main() has no try/catch around its
\* await, the cron callback has one.
AfterBillingRun(caller, raised) ==
  IF caller = "main" /\ raised THEN "crashed" ELSE "sleep"

\* An exception leaves runBillingCycle: the users still queued are dropped.
AbortCycle(r) ==
  [bill.run EXCEPT ![r].pc = AfterBillingRun(bill.run[r].wrapper, TRUE),
                   ![r].queue = <<>>, ![r].paid = FALSE]

\* The body of the for loop is done for the user in hand.
NextUser(r) ==
  LET rest == Tail(bill.run[r].queue) IN
  [bill.run EXCEPT ![r].pc = IF rest = <<>>
                               THEN AfterBillingRun(bill.run[r].wrapper, FALSE)
                               ELSE "precheck",
                   ![r].queue = rest, ![r].paid = FALSE]

BillingFrame == UNCHANGED <<gate, trading, pc, wrapper, cyc, outcome, adm, probe, desk, mon>>

\* main(): await runBillingCycle();
BillMain(r) ==
  /\ bill.run[r].pc = "boot"
  /\ bill' = [bill EXCEPT !.run[r].pc = "select", !.run[r].wrapper = "main"]
  /\ BillingFrame

\* cron.schedule('0 0 * * *', async () => { try { await runBillingCycle() }
\* catch ... })
BillTick(r) ==
  /\ bill.run[r].pc = "sleep"
  /\ bill' = [bill EXCEPT !.run[r].pc = "select", !.run[r].wrapper = "cron"]
  /\ BillingFrame

\* const users = await getAllUsersExpiringSoon();
BillSelect(r) ==
  /\ bill.run[r].pc = "select"
  /\ \E q \in QueryOutcomes :
       LET users == getAllUsersExpiringSoon(bill.users) IN
       bill' = [bill EXCEPT !.run =
                  IF q = "raise" THEN AbortCycle(r)
                  ELSE IF users = <<>>
                    THEN [bill.run EXCEPT
                            ![r].pc = AfterBillingRun(bill.run[r].wrapper, FALSE)]
                  ELSE [bill.run EXCEPT ![r].pc = "precheck",
                                        ![r].queue = users,
                                        ![r].paid = FALSE]]
  /\ BillingFrame

\* attemptVaultSubscription, lines 72-102: the user row, the vault keypair,
\* the balance and the blockhash.  "refused" is a return of {success: false}
\* (user not found, no vault, insufficient balance).
BillPrecheck(r) ==
  /\ bill.run[r].pc = "precheck"
  /\ \E o \in {"ok", "refused", "raise"} :
       bill' = [bill EXCEPT !.run[r].pc =
                  IF o = "ok" THEN "send"
                  ELSE IF o = "refused" THEN "downgrade"
                  ELSE "catch"]
  /\ BillingFrame

\* const txSignature = await connection.sendRawTransaction(...)
BillSend(r) ==
  LET u == Head(bill.run[r].queue) IN
  /\ bill.run[r].pc = "send"
  /\ bill.users[u].charged < MaxCharges
  /\ \E q \in QueryOutcomes :
       bill' = [bill EXCEPT !.run[r].pc =
                  IF q = "ok" THEN "confirm" ELSE "catch"]
  /\ BillingFrame

\* await connection.confirmTransaction(txSignature, 'confirmed'): when it
\* raises, the transfer that was sent may have landed or not.
BillConfirm(r) ==
  LET u == Head(bill.run[r].queue) IN
  /\ bill.run[r].pc = "confirm"
  /\ \/ bill' = [bill EXCEPT !.users[u].charged = @ + 1,
                             !.run[r].paid = TRUE,
                             !.run[r].pc = "extend"]
     \/ \E landed \in BOOLEAN :
          bill' = [bill EXCEPT !.users[u].charged = IF landed THEN @ + 1 ELSE @,
                               !.run[r].pc = "catch"]
  /\ BillingFrame

\* UPDATE users SET premium_expires_at = GREATEST(premium_expires_at, NOW())
\* + INTERVAL '30 days'
BillExtend(r) ==
  LET u == Head(bill.run[r].queue) IN
  /\ bill.run[r].pc = "extend"
  /\ \E q \in QueryOutcomes :
       bill' = IF q = "ok"
                 THEN [bill EXCEPT !.users[u].expiry = "extended",
                                   !.run[r].pc = "record"]
                 ELSE [bill EXCEPT !.run[r].pc = "catch"]
  /\ BillingFrame

\* INSERT INTO vault_transactions (... success = true); return {success:
\* true}; runBillingCycle then sends the 'Premium Renewed' notification.
BillRecord(r) ==
  /\ bill.run[r].pc = "record"
  /\ \E q \in QueryOutcomes :
       bill' = IF q = "ok"
                 THEN [bill EXCEPT !.run = NextUser(r)]
                 ELSE [bill EXCEPT !.run[r].pc = "catch"]
  /\ BillingFrame

\* catch (err) { await query(INSERT ... success = false); return {success:
\* false} }: a rejected INSERT here leaves attemptVaultSubscription.
BillCatch(r) ==
  /\ bill.run[r].pc = "catch"
  /\ \E q \in QueryOutcomes :
       bill' = [bill EXCEPT !.run =
                  IF q = "ok" THEN [bill.run EXCEPT ![r].pc = "downgrade"]
                  ELSE AbortCycle(r)]
  /\ BillingFrame

\* downgradeUserToFree: UPDATE users SET premium_expires_at = NULL,
\* user_type = 'free'
BillDowngrade(r) ==
  LET u == Head(bill.run[r].queue) IN
  /\ bill.run[r].pc = "downgrade"
  /\ \E q \in QueryOutcomes :
       bill' = IF q = "ok"
                 THEN [bill EXCEPT !.users[u].expiry = "null",
                                   !.users[u].user_type = "free",
                                   !.run[r].pc = "downgradeLog"]
                 ELSE [bill EXCEPT !.run = AbortCycle(r)]
  /\ BillingFrame

\* downgradeUserToFree: INSERT INTO vault_transactions (... 'auto_downgrade'),
\* then the 'Premium Expired' notification.
BillDowngradeLog(r) ==
  /\ bill.run[r].pc = "downgradeLog"
  /\ \E q \in QueryOutcomes :
       bill' = [bill EXCEPT !.run =
                  IF q = "ok" THEN NextUser(r) ELSE AbortCycle(r)]
  /\ BillingFrame

\* The users table holds any mix of users due for billing, users already
\* extended and free users when the processes start.
BillingInit ==
  /\ InitScanner
  /\ probe = NoProbe
  /\ desk = NoDesk
  /\ mon = NoMonitor
  /\ bill \in {[NoBilling EXCEPT !.users = us] :
                 us \in [BillUserIds -> {UserRow("due", "premium"),
                                         UserRow("extended", "premium"),
                                         UserRow("null", "free")}]}

BillingNext ==
  \E r \in Runners :
    \/ BillMain(r)
    \/ BillTick(r)
    \/ BillSelect(r)
    \/ BillPrecheck(r)
    \/ BillSend(r)
    \/ BillConfirm(r)
    \/ BillExtend(r)
    \/ BillRecord(r)
    \/ BillCatch(r)
    \/ BillDowngrade(r)
    \/ BillDowngradeLog(r)

BillingSpec == BillingInit /\ [][BillingNext]_vars


(***************************************************************************)
(* Properties                                                              *)
(***************************************************************************)
\* Scheduler s is between a granted acquire and the release in `finally`.
InCycle(s) ==
  pc[s] \in {"market", "aggregator", "circuit", "hung", "pause", "alert", "release"}

\* Scheduler s takes a step of its own.
Steps(s) == pc'[s] # pc[s] \/ cyc'[s] # cyc[s]

TypeOK ==
  /\ gate \subseteq Actors
  /\ trading \in [enabled : BOOLEAN,
                  reason : {"", AutoReason} \cup AdminReasons,
                  changedBy : {"NONE", "SYSTEM", "ADMIN", NoActor}]
  /\ pc \in [Schedulers -> {"boot", "acquire", "market", "aggregator", "circuit",
                            "hung", "pause", "alert", "release", "sleep",
                            "crashed"}]
  /\ wrapper \in [Schedulers -> {"main", "cron"}]
  /\ outcome \in [Schedulers -> {"none", "done", "skipped", "failed"}]
  /\ adm \in [pausedBy : Roles \cup {"nobody"},
              route : {"none", "forceMarketPause", "pause_ai", "resume_ai"},
              role : Roles,
              status : {"none", "returned", "rejected", "200", "403", "500"},
              lifted : Roles \cup {"nobody"}]
  /\ probe.evaluated \subseteq Sources
  /\ mon.pc \in {"boot", "collect", "handle", "sleep", "crashed"}
  /\ mon.wrapper \in {"main", "cron"}
  /\ mon.stats.kind \in {"pending", "null", "stats"}
  /\ mon.inserted \in {"notcalled", "ok", "raise"}
  /\ mon.sent \subseteq Alerts
  /\ mon.rows \in 0..MaxStatsRows
  /\ \A u \in BillUserIds :
       /\ bill.users[u].expiry \in {"due", "extended", "null"}
       /\ bill.users[u].user_type \in {"premium", "free"}
       /\ bill.users[u].charged \in 0..MaxCharges
  /\ \A r \in Runners :
       /\ bill.run[r].pc \in {"boot", "select", "precheck", "send", "confirm",
                              "extend", "record", "catch", "downgrade",
                              "downgradeLog", "sleep", "crashed"}
       /\ bill.run[r].wrapper \in {"main", "cron"}
       /\ bill.run[r].paid \in BOOLEAN
       /\ Len(bill.run[r].queue) <= Len(BillUsers)
  /\ desk.admin_roles \in [Users -> Roles]
  /\ desk.admin_logs \in 0..MaxLogRows
  /\ desk.notified \subseteq Users
  /\ \A c \in Callers :
       /\ desk.call[c].fn \in {"none", "setAdminRole", "forceMarketPause"}
       /\ desk.call[c].at \in {"idle", "getAdminRole", "logAdminAction",
                               "insert", "pause", "notify"}
       /\ desk.call[c].result \in {"none", "returned", "rejected",
                                   "OnlySuperadmins", "InvalidRole"}
  /\ \A s \in Schedulers :
       /\ cyc[s].evaluated \subseteq Sources
       /\ cyc[s].triggered \subseteq cyc[s].evaluated
       /\ cyc[s].errored \subseteq cyc[s].evaluated

\* C1: at any instant at most one scheduler is between a granted acquire and
\* its release, and that scheduler is the one holder of the gate; two cycles
\* never evaluate sources or pause trading at the same time.
C1_AtMostOneCycleInsideGate ==
  /\ Cardinality({s \in Schedulers : InCycle(s)}) <= 1
  /\ \A s \in Schedulers : InCycle(s) => gate = {s}

\* C1 witness: one scheduler is pausing trading inside the gate while another
\* scheduler's acquire is in flight.
C1_Witness ==
  \E s \in Schedulers, t \in Schedulers :
    s # t /\ pc[s] = "pause" /\ gate = {s} /\ pc[t] = "acquire"

\* C2 (as claimed): once a cycle has ended, the gate is not held by that
\* cycle's scheduler: the gate is held only by a scheduler inside its cycle.
\* (A scheduler whose main() was rejected is left out: its process may be gone,
\* and its hold with it.)
C2_GateNotHeldAfterCycle ==
  \A s \in Schedulers : s \in gate => InCycle(s) \/ pc[s] = "crashed"

\* C3: an acquire answered while another holder is active ends the cycle in
\* that very step: no source is evaluated, the trading state and the gate are
\* untouched, nothing of a cycle is left behind; and no cycle runs on a busy
\* answer.
C3_BusyCycleReturnsAtOnce ==
  /\ [](\A s \in Schedulers : InCycle(s) => cyc[s].acquire = "granted")
  /\ [][\A s \in Schedulers :
          (pc[s] = "acquire" /\ Steps(s) /\ gate # {})
            => /\ pc'[s] \in {"sleep", "crashed"}
               /\ outcome'[s] \in {"skipped", "failed"}
               /\ cyc'[s] = FreshCycle
               /\ gate' = gate
               /\ trading' = trading]_vars

\* C3 witness: a scheduler was skipped and waits for its next tick while the
\* holder, still inside its cycle, keeps the gate.
C3_Witness ==
  \E s \in Schedulers, t \in Schedulers :
    /\ s # t
    /\ outcome[s] = "skipped" /\ pc[s] = "sleep" /\ wrapper[s] = "main"
    /\ InCycle(t) /\ wrapper[t] = "main" /\ gate = {t}

\* C4 (as claimed): every change of the trading state is made by an actor that
\* holds the gate: the scheduler at its pause step for an automatic pause, the
\* admin for a manual pause or resume.
C4_MutationsHoldGate ==
  [][trading' # trading
       => IF trading'.reason = AutoReason
            THEN \E s \in Schedulers : pc[s] = "pause" /\ s \in gate
            ELSE Admin \in gate]_vars

\* C5 (as claimed): a cycle in which some source triggered has paused trading
\* when it reaches the release, whatever happened to the other sources (the
\* pause write itself failing aside).
C5_TriggerAlwaysPauses ==
  \A s \in Schedulers :
    (pc[s] = "release" /\ cyc[s].triggered # {} /\ cyc[s].pause # "raise")
      => cyc[s].pause = "ok"

\* C6 (as claimed): every cycle that acquired the gate has evaluated all three
\* sources when it reaches the release.
C6_AllSourcesEvaluated ==
  \A s \in Schedulers : pc[s] = "release" => cyc[s].evaluated = Sources

\* C7 (as claimed): a cycle in which exactly one source failed to evaluate and
\* the other two returned non-triggering verdicts completes normally, without
\* pause and without alert.
C7_OneFailingSourceCompletesNormally ==
  \A s \in Schedulers :
    (/\ pc[s] = "release"
     /\ Cardinality(cyc[s].errored) = 1
     /\ cyc[s].evaluated = Sources
     /\ cyc[s].triggered = {})
      => /\ ~ExceptionPending(cyc[s])
         /\ cyc[s].pause = "notcalled"
         /\ cyc[s].alert = "notcalled"

\* C8: the scanner pauses and alerts only in a cycle in which some source
\* triggered: the pause and alert steps are reached only with a triggered
\* source, and every automatic change of the trading state is made by such a
\* cycle; a cycle without a trigger leaves the trading state as it is.
C8_PauseOnlyWhenTriggered ==
  /\ [](\A s \in Schedulers :
          (\/ pc[s] \in {"pause", "alert"}
           \/ cyc[s].pause # "notcalled"
           \/ cyc[s].alert # "notcalled")
            => cyc[s].triggered # {} /\ cyc[s].meltdownTriggered)
  /\ [][\A s \in Schedulers :
          (Steps(s) /\ cyc[s].triggered = {}) => trading' = trading]_vars
  /\ [][(trading' # trading /\ trading'.reason = AutoReason)
          => \E s \in Schedulers : pc[s] = "pause" /\ cyc[s].triggered # {}]_vars

\* C8 witness: a cycle evaluated all three sources, none triggered and none
\* failed; it stands at the release with no pause and no alert, and trading is
\* still in its initial enabled state.
C8_Witness ==
  \E s \in Schedulers :
    /\ pc[s] = "release"
    /\ cyc[s].evaluated = Sources
    /\ cyc[s].triggered = {} /\ cyc[s].errored = {}
    /\ cyc[s].pause = "notcalled" /\ cyc[s].alert = "notcalled"
    /\ trading = InitialTrading

\* C9 (as claimed): after a failed cycle the schedule is installed, so that
\* later ticks run: a failed cycle never leaves its scheduler stopped.
C9_LoopSurvivesFailedCycle ==
  \A s \in Schedulers : outcome[s] = "failed" => pc[s] # "crashed"

\* C10 (as claimed): a cycle that ends after a source evaluation raised has
\* called neither the pause nor the alert, and leaves its scheduler waiting
\* for the next tick.
C10_RaisedCycleAbortsAndLoopGoesOn ==
  [][\A s \in Schedulers :
       (pc[s] = "release" /\ cyc[s].srcRaised # "none" /\ Steps(s))
         => /\ cyc[s].pause = "notcalled"
            /\ cyc[s].alert = "notcalled"
            /\ pc'[s] = "sleep"]_vars

\* C11 (as claimed): once an admin has paused trading, the pause step of a
\* scanner cycle leaves the stored reason and the stored actor as the admin's
\* pause wrote them.
C11_AdminPauseNotOverwritten ==
  [][\A s \in Schedulers :
       (/\ pc[s] = "pause" /\ Steps(s)
        /\ ~trading.enabled /\ trading.reason \in AdminReasons)
         => /\ trading'.reason = trading.reason
            /\ trading'.changedBy = trading.changedBy]_vars

\* The privilege a role carries: a superadmin above the two manager roles,
\* and a user without a row in admin_roles below them.
Privilege(role) ==
  CASE role = "superadmin" -> 2
    [] role \in {"riskmanager", "tradermanager"} -> 1
    [] OTHER -> 0

\* C12 (as claimed): a resume request that met a pause set by an admin is
\* answered by the privilege of its caller: with less privilege than the admin
\* who paused, it is not answered as a success and trading stays disabled;
\* with the same or more, a successful answer means trading is enabled.
C12_ResumeNeedsPrivilege ==
  (adm.route = "resume_ai" /\ adm.lifted # "nobody")
    => IF Privilege(adm.role) >= Privilege(adm.lifted)
         THEN adm.status = "200" => trading.enabled
         ELSE adm.status # "200" /\ ~trading.enabled

\* C13: inside a cycle the order is pause, then alert, then release of the
\* gate: the pause is called before any alert, a pause that resolved is
\* followed at once by the alert call with the gate still held, the release is
\* reached after a resolved pause only with the alert called, and no alert is
\* ever called in a cycle whose pause did not resolve.
C13_PauseThenAlertThenRelease ==
  /\ [](\A s \in Schedulers :
          /\ pc[s] = "pause"
               => /\ cyc[s].pause = "notcalled" /\ cyc[s].alert = "notcalled"
                  /\ s \in gate
          /\ pc[s] = "alert"
               => /\ cyc[s].pause = "ok" /\ cyc[s].alert = "notcalled"
                  /\ s \in gate
          /\ (pc[s] = "release" /\ cyc[s].pause = "ok")
               => cyc[s].alert # "notcalled"
          /\ cyc[s].alert # "notcalled" => cyc[s].pause = "ok")
  /\ [][\A s \in Schedulers :
          (pc[s] = "pause" /\ Steps(s))
            => /\ gate' = gate
               /\ IF cyc'[s].pause = "ok"
                    THEN pc'[s] = "alert"
                    ELSE pc'[s] = "release" /\ trading' = trading]_vars

\* C13 witness: a cycle paused trading, called the alert, and stands at the
\* release with the gate still held.
C13_Witness ==
  \E s \in Schedulers :
    /\ pc[s] = "release" /\ s \in gate
    /\ cyc[s].pause = "ok" /\ cyc[s].alert = "ok"
    /\ ~trading.enabled /\ trading.reason = AutoReason

\* C14 (as claimed): a cycle whose alert dispatch failed reaches the release
\* with trading paused by it, the gate still its own to release, and no
\* exception on its way out of the cycle.
C14_AlertFailureAbsorbed ==
  \A s \in Schedulers :
    (pc[s] = "release" /\ cyc[s].alert = "raise")
      => /\ cyc[s].pause = "ok"
         /\ s \in gate
         /\ ~ExceptionPending(cyc[s])

\* C15 (as claimed): the reason a scanner cycle stores with its pause names
\* exactly the sources that triggered in that cycle.
C15_ReasonListsTriggeredSources ==
  [][\A s \in Schedulers :
       (pc[s] = "pause" /\ Steps(s) /\ cyc'[s].pause = "ok")
         => SourcesNamed(trading'.reason) = cyc[s].triggered]_vars

\* C16: every pause the scanner issues carries a non-empty reason: the step in
\* which a cycle's pause resolves leaves trading disabled with the scanner's
\* reason stored, and that reason is not the empty string.
C16_ScannerPauseHasReason ==
  [][\A s \in Schedulers :
       (pc[s] = "pause" /\ Steps(s) /\ cyc'[s].pause = "ok")
         => /\ ~trading'.enabled
            /\ trading'.reason = AutoReason
            /\ trading'.reason # ""]_vars

\* C16 witness: the scanner's pause is the last transition of the trading
\* state: the cycle that made it is about to send its alert.
C16_Witness ==
  \E s \in Schedulers :
    /\ pc[s] = "alert" /\ cyc[s].pause = "ok"
    /\ ~trading.enabled /\ trading.reason = AutoReason
    /\ trading.changedBy = NoActor

\* C17 (as claimed): for a prior price above 0 and any current price the feed
\* gives, 0 included, checkMarketConditions triggers exactly when the drop
\* (old - current)/old reaches priceDropThreshold.
C17_MarketTriggersAtThreshold ==
  (/\ MARKET \in probe.evaluated
   /\ probe.oldRes.kind = "row" /\ probe.oldRes.price > 0
   /\ probe.feed.kind = "ok")
    => (probe.verdict[MARKET].triggered
          <=> (probe.oldRes.price - probe.feed.price) * 100
                >= PriceDropThresholdPct * probe.oldRes.price)

C19_FailureBurstTriggersAtThreshold ==
  (FAILURE_BURST \in probe.evaluated /\ probe.failRes.kind # "raise")
    => /\ probe.failRes.kind = "count"
            => (probe.verdict[FAILURE_BURST].triggered
                  <=> probe.failRes.n >= ConsecutiveFailThreshold)
       /\ probe.failRes.kind \in {"missing", "nan"}
            => ~probe.verdict[FAILURE_BURST].triggered
       /\ ~probe.verdict[FAILURE_BURST].raised
       /\ ~probe.verdict[FAILURE_BURST].error

\* C19 witness: a count equal to the threshold was handed over and the source
\* triggered.
C19_Witness ==
  /\ FAILURE_BURST \in probe.evaluated
  /\ probe.failRes.kind = "count"
  /\ probe.failRes.n = ConsecutiveFailThreshold
  /\ probe.verdict[FAILURE_BURST].triggered

\* C20 (as claimed): a cycle whose source evaluation never returns is not left
\* where it stands: it still has a step to take, the cancellation that
\* releases the gate.
C20_BlockedCycleIsCancelled ==
  \A s \in Schedulers : pc[s] = "hung" => ENABLED SchedulerStep(s)

\* C21 (as claimed): a failing query aborts the cycle and leaves the state as
\* it was: a cycle ended at its acquire has evaluated nothing, paused nothing
\* and holds no gate; a pause step that did not resolve leaves the trading
\* state unchanged; and the step that ends a cycle at its release leaves the
\* gate free of that cycle's scheduler, whether or not the unlock query
\* succeeded.  (A scheduler whose main() was rejected is left out: its process
\* may be gone, and its hold with it.)
C21_FailedQueryLeavesStateUnchanged ==
  /\ [][\A s \in Schedulers :
          (pc[s] = "acquire" /\ Steps(s) /\ outcome'[s] = "failed"
             /\ pc'[s] \in {"sleep", "crashed"})
            => /\ trading' = trading
               /\ gate' = gate
               /\ cyc[s].evaluated = {}]_vars
  /\ [][\A s \in Schedulers :
          (pc[s] = "pause" /\ Steps(s) /\ cyc'[s].pause = "raise")
            => trading' = trading]_vars
  /\ [][\A s \in Schedulers :
          (pc[s] = "release" /\ Steps(s) /\ pc'[s] # "crashed")
            => s \notin gate']_vars

\* C22: checkMarketConditions returns not-triggered, and raises nothing, when
\* its data is insufficient: the historical-price query raises or has no row,
\* the historical price is missing, zero or negative, or the price feed gives
\* null.
C22_InsufficientDataNeverTriggers ==
  (/\ MARKET \in probe.evaluated
   /\ \/ probe.oldRes.kind \in {"raise", "norows", "missing"}
      \/ probe.oldRes.price <= 0
      \/ probe.feed.kind = "null")
    => /\ ~probe.verdict[MARKET].triggered
       /\ ~probe.verdict[MARKET].raised

\* C22 witness: the historical-price query was rejected, and the check
\* returned not-triggered.
C22_Witness ==
  /\ MARKET \in probe.evaluated
  /\ probe.oldRes.kind = "raise"
  /\ ~probe.verdict[MARKET].triggered
  /\ ~probe.verdict[MARKET].raised
  /\ probe.verdict[MARKET].error

\* C23: from the counts of the trailing window, the error rate is a fraction
\* with a non-zero denominator; with zero executions it is 0 and the
\* aggregator source triggers only on the warning flag; with executions it is
\* failed/total and lies between 0 and 1.
C23_ErrorRateOfWindow ==
  (AGGREGATOR \in probe.evaluated /\ probe.res.kind = "ok")
    => /\ probe.stats.kind = "stats"
       /\ probe.stats.rateDen > 0
       /\ probe.res.totalCount = 0
            => /\ probe.stats.rateNum = 0
               /\ probe.verdict[AGGREGATOR].triggered <=> probe.stats.meltdownWarnings
       /\ probe.res.totalCount > 0
            => /\ probe.stats.rateNum * probe.res.totalCount
                    = probe.res.failCount * probe.stats.rateDen
               /\ 0 <= probe.stats.rateNum
               /\ probe.stats.rateNum <= probe.stats.rateDen

\* C23 witness: the window held no execution, the rate collected is 0 and the
\* source did not trigger.
C23_Witness ==
  /\ AGGREGATOR \in probe.evaluated
  /\ probe.res.kind = "ok" /\ probe.res.totalCount = 0
  /\ probe.stats.rateNum = 0
  /\ ~probe.verdict[AGGREGATOR].triggered

\* C24: no step of a scanner cycle enables trading: a pause that resolves
\* leaves trading disabled, every other step of a cycle leaves the flag as it
\* is, and trading that is disabled becomes enabled only in a step that no
\* scheduler takes (the resume of an admin).
C24_ScannerOnlyDisables ==
  /\ [][\A s \in Schedulers :
          Steps(s) => /\ trading'.enabled => trading.enabled
                      /\ (pc[s] = "pause" /\ cyc'[s].pause = "ok")
                           => ~trading'.enabled]_vars
  /\ [][(~trading.enabled /\ trading'.enabled)
          => \A s \in Schedulers : ~Steps(s)]_vars

\* C24 witness: trading is disabled and one cycle after another has run
\* since: a scheduler finished a cron cycle, and another scheduler has paused
\* again.
C24_Witness ==
  \E s \in Schedulers, t \in Schedulers :
    /\ s # t
    /\ ~trading.enabled
    /\ outcome[s] = "done" /\ wrapper[s] = "cron" /\ pc[s] = "sleep"
    /\ pc[t] = "alert" /\ wrapper[t] = "cron" /\ outcome[t] = "done"

\* C25: the steps that evaluate the three sources leave the trading state and
\* the gate as they are; the one step of a cycle that changes the trading
\* state is its pause step, after the three evaluations.
C25_SourcesLeaveStateAndGate ==
  /\ [][\A s \in Schedulers :
          (pc[s] \in {"market", "aggregator", "circuit"} /\ Steps(s))
            => trading' = trading /\ gate' = gate]_vars
  /\ [][\A s \in Schedulers :
          (Steps(s) /\ trading' # trading)
            => pc[s] = "pause" /\ cyc[s].evaluated = Sources]_vars

\* C25 witness: the three sources have been evaluated, one of them triggered,
\* and the trading state and the gate are as the acquire left them.
C25_Witness ==
  \E s \in Schedulers :
    /\ pc[s] = "pause" /\ cyc[s].evaluated = Sources
    /\ cyc[s].triggered # {}
    /\ trading = InitialTrading /\ gate = {s}

\* C26: a cycle runs in the order acquire, evaluate, transition, release.  The
\* sources are evaluated one after the other, market, aggregator,
\* failure-burst, by a scheduler that was granted the gate and has not ended
\* its cycle; the pause and the alert come after all three; outside a cycle
\* nothing of a cycle exists; and a cycle that found the gate busy ends in the
\* step of its acquire.
C26_CycleOrder ==
  /\ [](\A s \in Schedulers :
          /\ pc[s] = "market" => cyc[s].evaluated = {}
          /\ pc[s] = "aggregator" => cyc[s].evaluated = {MARKET}
          /\ pc[s] = "circuit" => cyc[s].evaluated = {MARKET, AGGREGATOR}
          /\ pc[s] \in {"pause", "alert"} => cyc[s].evaluated = Sources
          /\ InCycle(s) => cyc[s].acquire = "granted"
          /\ ~InCycle(s) => cyc[s] = FreshCycle)
  /\ [][\A s \in Schedulers :
          (Steps(s) /\ cyc'[s].evaluated # cyc[s].evaluated /\ cyc'[s] # FreshCycle)
            => /\ s \in gate /\ s \in gate'
               /\ pc[s] \in {"market", "aggregator", "circuit"}]_vars
  /\ [][\A s \in Schedulers :
          (pc[s] = "acquire" /\ Steps(s) /\ pc'[s] # "market")
            => /\ outcome'[s] \in {"skipped", "failed"}
               /\ outcome'[s] = "skipped" => pc'[s] = "sleep"
               /\ cyc'[s] = FreshCycle /\ gate' = gate]_vars

\* C26 witness: a cycle went through its three evaluations, its pause and its
\* alert and stands at the release, while the other scheduler's cycle was
\* skipped.
C26_Witness ==
  \E s \in Schedulers, t \in Schedulers :
    /\ s # t
    /\ pc[s] = "release" /\ cyc[s].evaluated = Sources
    /\ cyc[s].pause = "ok" /\ cyc[s].alert = "ok"
    /\ outcome[t] = "skipped" /\ pc[t] = "sleep"

\* The position of a statement in runRiskScanner's text.
StatementRank(l) ==
  CASE l = "acquire" -> 0
    [] l = "market" -> 1
    [] l = "aggregator" -> 2
    [] l = "circuit" -> 3
    [] l = "pause" -> 4
    [] l = "alert" -> 5
    [] l = "release" -> 6
    [] OTHER -> 7

\* C27: within one cycle nothing is retried.  A cycle is entered only through
\* its acquire; every step of a cycle moves forward in the text of
\* runRiskScanner, so no statement runs twice; a check is made of a source
\* not yet evaluated in the cycle, and the pause and the alert are called
\* only when not yet called in the cycle, whatever the number of sources
\* that triggered.
C27_NothingRetried ==
  [][\A s \in Schedulers :
       Steps(s) =>
         /\ (pc[s] \in {"acquire", "market", "aggregator", "circuit",
                        "pause", "alert", "release"} /\ InCycle(s)')
              => StatementRank(pc'[s]) > StatementRank(pc[s])
         /\ (InCycle(s)' /\ ~InCycle(s)) => pc[s] = "acquire"
         /\ pc'[s] = "acquire" => ~InCycle(s) /\ pc[s] # "acquire"
         /\ pc[s] = "market" => MARKET \notin cyc[s].evaluated
         /\ pc[s] = "aggregator" => AGGREGATOR \notin cyc[s].evaluated
         /\ pc[s] = "circuit" => FAILURE_BURST \notin cyc[s].evaluated
         /\ cyc'[s].pause # cyc[s].pause /\ cyc'[s] # FreshCycle
              => cyc[s].pause = "notcalled" /\ pc[s] = "pause"
         /\ cyc'[s].alert # cyc[s].alert /\ cyc'[s] # FreshCycle
              => cyc[s].alert = "notcalled" /\ pc[s] = "alert"]_vars

\* C27 witness: all three sources triggered in one cycle, and the cycle
\* stands at its release after one pause and one alert.
C27_Witness ==
  \E s \in Schedulers :
    /\ pc[s] = "release" /\ cyc[s].triggered = Sources
    /\ cyc[s].pause = "ok" /\ cyc[s].alert = "ok"

\* C28: a pause_ai request of a caller whose role is not 'superadmin' is
\* answered 403 and leaves the trading state as it was.
C28_PauseAiNeedsSuperadmin ==
  [][(adm'.route = "pause_ai" /\ adm'.role # "superadmin")
       => adm'.status = "403" /\ trading' = trading]_vars

\* C28 witness: a caller with no role asked pause_ai while trading was
\* enabled, was answered 403, and trading is still enabled.
C28_Witness ==
  /\ adm.route = "pause_ai" /\ adm.role = "none" /\ adm.status = "403"
  /\ trading.enabled

\* C29 (as claimed): a user who is not a superadmin never becomes one by a
\* setAdminRole call of its own: the step of a call made by adminId, taken
\* while adminId is not a superadmin, does not leave adminId a superadmin.
C29_NoSelfPromotion ==
  [][\A c \in Callers :
       LET k == desk.call[c] IN
       (/\ k.fn = "setAdminRole" /\ desk'.call[c] # k
        /\ desk.admin_roles[k.adminId] # "superadmin")
         => desk'.admin_roles[k.adminId] # "superadmin"]_vars

\* C30: forceMarketPause runs audit log, then pause, then notifications.  The
\* pause is reached after the logAdminAction call whether or not its INSERT
\* failed; the notifications are reached only after a pause that succeeded;
\* the step after logAdminAction is always the pause; a call whose pause
\* raised ends there, rejected, with nobody notified; and within a call the
\* trading state is written by the pause statement alone and notifications
\* are sent by the last statement alone.
C30_ForcedPauseOrder ==
  /\ [](\A c \in Callers :
          LET k == desk.call[c] IN
          k.fn = "forceMarketPause" =>
            /\ k.at \in {"logAdminAction", "pause", "notify"}
            /\ k.at = "logAdminAction" => k.logged = "notcalled" /\ k.paused = "notcalled"
            /\ k.at = "pause" => k.logged \in {"ok", "failed"} /\ k.paused = "notcalled"
            /\ k.at = "notify" => k.logged \in {"ok", "failed"} /\ k.paused = "ok")
  /\ [][\A c \in Callers :
          LET k == desk.call[c] IN
          (k.fn = "forceMarketPause" /\ desk'.call[c] # k) =>
            /\ k.at = "logAdminAction" => desk'.call[c].at = "pause"
            /\ (k.at = "pause" /\ desk'.call[c].at # "notify")
                 => /\ desk'.call[c] = IdleCall("rejected")
                    /\ desk'.notified = desk.notified
            /\ trading' # trading => k.at = "pause"
            /\ desk'.notified # desk.notified => k.at = "notify"]_vars

\* C30 witness: the audit log INSERT of a forceMarketPause call failed, the
\* pause was made all the same and trading is disabled, and the call is about
\* to notify the superadmins.
C30_Witness ==
  \E c \in Callers :
    /\ desk.call[c].fn = "forceMarketPause" /\ desk.call[c].at = "notify"
    /\ desk.call[c].logged = "failed" /\ desk.call[c].paused = "ok"
    /\ ~trading.enabled /\ desk.notified = {}

\* C31 (as claimed): a run whose metric collection gave null stores no
\* aggregator_stats row and sends no alert, and its error is caught, so the
\* monitor goes on to wait for its next tick.
C31_NullStatsRunIsAbsorbed ==
  [][(mon.pc = "handle" /\ mon.stats.kind = "null" /\ mon' # mon)
       => /\ mon'.rows = mon.rows
          /\ mon'.sent = {}
          /\ mon'.pc = "sleep"]_vars

\* C32 (as claimed): once the row is stored, each alert of the run is sent
\* exactly when its own condition holds, whatever became of the other two;
\* and no alert is sent unless the row was stored.
C32_AlertsFollowTheirConditions ==
  /\ mon.inserted = "ok" =>
       /\ "errorRate" \in mon.sent <=> HighErrorRate(mon.stats)
       /\ "queueBacklog" \in mon.sent <=> QueueBacklog(mon.stats)
       /\ "rpcUnhealthy" \in mon.sent <=> ~mon.stats.rpcHealthy
  /\ mon.inserted # "ok" => mon.sent = {}

\* A billing cycle of process r is between its SELECT and its end.
InBillingCycle(r) ==
  bill.run[r].pc \in {"precheck", "send", "confirm", "extend", "record",
                      "catch", "downgrade", "downgradeLog"}

\* C33 (as claimed): the downgrade UPDATE of a cycle is applied only to a
\* user whose transfer was not sent and confirmed in that cycle.
C33_PaidUserNotDowngraded ==
  [][\A r \in Runners :
       (bill.run[r].pc = "downgrade" /\ bill'.run[r].pc = "downgradeLog")
         => ~bill.run[r].paid]_vars

\* C34 (as claimed): a cycle ends only when every user it selected has been
\* handled: at the step that ends it, no user is queued behind the one in
\* hand.
C34_EveryUserProcessed ==
  [][\A r \in Runners :
       (InBillingCycle(r) /\ bill'.run[r].pc \in {"sleep", "crashed"})
         => Len(bill.run[r].queue) <= 1]_vars

\* C35 (as claimed): the fee leaves a user's vault at most once per expiry,
\* overlapping cycles included.
C35_ChargedAtMostOnce ==
  \A u \in BillUserIds : bill.users[u].charged <= 1

====
